---- MODULE Spec2Model ----
(***************************************************************************)
(* The file-analysis pipeline of code_analyzer_app:                        *)
(*   core/processor.py   CodeAnalyzerProcessor (_process_file,             *)
(*                       run_analysis)                                     *)
(*   core/utils.py       calculate_file_hash, load_cache, save_cache,      *)
(*                       is_text_file, read_file_content                   *)
(*   core/llm_manager.py LLMManager (get_token_count, analyze_code,        *)
(*                       chunk_code, summarize_analyses)                   *)
(*   core/report_generator.py ReportGenerator.save_report                  *)
(*   main.py             main                                              *)
(*                                                                         *)
(* A file is a record [dir, name]; a name and a report path are sequences  *)
(* of string pieces, so that str.replace(".report", ...) acts on them as   *)
(* it does on the strings.  File bytes are identified by the length of     *)
(* the text (two texts of different length are different bytes).  Time is  *)
(* the number of the run_analysis invocation.  The LLM backend, the        *)
(* filesystem and the text splitter are the environment: each call to      *)
(* them draws its outcome from the outcomes that call can have.            *)
(***************************************************************************)
EXTENDS Integers, Sequences, FiniteSets, TLC

\* ------------------------------------------------------------------ bounds

\* run_analysis invocations explored (over all processes)
MaxRuns == 3
\* most chunks the text splitter returns for one file
MaxChunks == 2

\* --------------------------------------------------------------- constants

\* one attempt too many: range(retries + 1)
RetriesOneMore == 3 + 1

\* processor.py:86 and :112, retries = 3
Retries == 3
\* config['context_window'], in tokens
ContextWindow == 10

\* the source files there are: two of the same base name in two directories
FileA == [dir |-> "in", name |-> <<"a", ".py">>]

FileB == [dir |-> "in/sub", name |-> <<"a", ".py">>]

Files == {FileA, FileB}

\* the texts a file can hold, by length in characters
ContentLens == {40, 44}

\* the report formats of a configuration (settings.py:78)
Formats == {"json", "markdown", "text"}

\* what one provider call can do: return a record, return the empty record {},
\* fail in a way a retry may cure (timeout, unparsable output), or fail for
\* good (content-policy block, invalid request)
Outcomes == {"ok", "empty", "retryable", "blocked"}

Failures == {"retryable", "blocked"}

\* what `with open(path, 'w')` and the write that follows can do: write all,
\* raise in open, or raise in the write and leave the head of the text
SaveOutcomes == {"written", "not_opened", "partial"}

VARIABLES
    input_dir,      \* the files os.walk(input_dir) finds with a configured extension
    content,        \* content[f]: the bytes of file f
    reports,        \* the report artifacts in output_dir: path -> the file whose
                    \* save_report opened it last
    cache_file,     \* cache.json in the directory the processes are started from
                    \* (processor.py:20: the configuration has no project_root):
                    \* absent, ok (the document doc), truncated (empty), partial
                    \* (the head of a document) or torn (a document over the
                    \* tail of a longer one)
    hash_memo,      \* the lru_cache of calculate_file_hash
    report_format,  \* config['report_format']
    cache,          \* self.cache of the processor
    phase,          \* "idle" | "constructed" | "running" | "exited: ...": no
                    \* run_analysis is executing, the processor is built, a run
                    \* is executing, main() has left through sys.exit(1)
    runs,           \* run_analysis invocations so far; the clock of time.time()
    w,              \* w[f]: the worker executing _process_file(f)
    results,        \* the list `results` of run_analysis
    proc,           \* the process: the directory it was started from ("app", the
                    \* directory of main.py, or "other"), whether --no-cache was
                    \* given, the llm section of its configuration, and whether
                    \* its main thread has been interrupted
    chunker,        \* a call of LLMClient._chunk_code: its arguments
                    \* code_content and chunk_size, and what it returned
    client          \* a call of LLMClient.analyze_code_with_llm: its arguments,
                    \* its position, the _call_llm calls it has made and what
                    \* it returned

vars == <<input_dir, content, reports, cache_file, hash_memo, report_format, cache, phase, runs, w,
          results, proc, chunker, client>>

\* ------------------------------------------------------------------ values

NoHash == [kind |-> "none", of |-> 0]

\* hashlib.sha256(...).hexdigest(): collision-free on the texts of the model
Digest(c) == [kind |-> "sha256", of |-> c]

\* the sentinel calculate_file_hash returns on an exception
ERROR_HASH == [kind |-> "error", of |-> 0]

NoPath == <<>>

None == [kind |-> "None", src |-> "-", empty |-> TRUE, chunked |-> FALSE]

NoCall == [kind |-> "-", tried |-> <<>>, sleeps |-> <<>>, state |-> "-", chunk |-> 0,
           findings |-> ""]

\* provider calls made for a file, and how many of them raised
NoCalls == [token |-> 0, analyze |-> 0, summarize |-> 0, failed |-> 0]

Idle == [pc |-> "idle", file_hash |-> NoHash, k |-> 0, i |-> 0, attempt |-> 0,
         chunk_analyses |-> <<>>, analysis_result |-> None,
         report_filepath |-> NoPath, status |-> "-", reason |-> "-",
         calls |-> NoCalls, last_call |-> NoCall, iter |-> {}]

\* no call of LLMClient._chunk_code: the processor chunks with
\* LLMManager.chunk_code and never constructs an LLMClient
NoChunker == [pc |-> "-", code_content |-> <<>>, chunk_size |-> 0, final_chunks |-> <<>>]

\* no call of LLMClient.analyze_code_with_llm
NoClient == [pc |-> "-", file_content |-> <<>>, chunk_size |-> 0, max_retries |-> 0,
             chunks |-> <<>>, i |-> 0, attempt |-> 0, tried |-> <<>>, slept |-> <<>>,
             individual_analyses |-> <<>>, calls |-> <<>>,
             last |-> [tried |-> <<>>, slept |-> <<>>, response |-> "-"],
             result |-> "-"]

\* python main.py from its own directory, with no flag
Plain == [cwd |-> "app", no_cache |-> FALSE, llm |-> "ok", interrupted |-> FALSE]

RECURSIVE Pow2(_)
Pow2(n) == IF n = 0 THEN 1 ELSE 2 * Pow2(n - 1)

\* os.path.basename(filepath)
Basename(f) == f.name

\* str.replace(old, new) on a path
Replace(path, old, new) == [j \in DOMAIN path |-> IF path[j] = old THEN new ELSE path[j]]

\* ------------------------------------------------------------ pure helpers

\* processor.py:46-48
ExpectedReportPath(f, fmt) ==
    LET report_ext == IF fmt = "json" THEN ".json"
                      ELSE IF fmt = "markdown" THEN ".md" ELSE ".report"
    IN  Append(Basename(f), report_ext)

\* report_generator.py:73-84
SaveReportPath(f, fmt) ==
    LET report_filepath == Append(Basename(f), ".report")
    IN  IF fmt = "json" THEN Replace(report_filepath, ".report", ".json")
        ELSE IF fmt = "markdown" THEN Replace(report_filepath, ".report", ".md")
        ELSE report_filepath

\* llm_manager.py:63-73, the len(text) // 4 estimate
get_token_count(c) == c \div 4

\* utils.py:25-35
load_cache(file) == IF file.state = "ok" THEN file.doc ELSE <<>>

\* dict assignment d[key] = value
Put(d, key, value) == [x \in DOMAIN d \cup {key} |-> IF x = key THEN value ELSE d[x]]

\* processor.py:51-52
Unchanged(f, h) ==
    /\ f \in DOMAIN cache
    /\ cache[f].hash = h
    /\ ExpectedReportPath(f, report_format) \in DOMAIN reports

\* del d[key]
Del(d, key) == [x \in DOMAIN d \ {key} |-> d[x]]

\* a backoff that does not grow: time.sleep(2) on every pass
BackoffFlat(attempt) == 2

\* time.sleep(2 ** attempt), processor.py:98 and :120
Backoff(attempt) == Pow2(attempt)

\* except LLMProviderError (processor.py:95, :117): analyze_code and
\* summarize_analyses turn every exception into LLMProviderError
\* (llm_manager.py:87-89, :106-108), so every failure is caught and retried
Caught(o) == o \in Failures

\* `if analysis_result:` (processor.py:125): a dict is true unless it has no
\* key; the chunked path has added the key __is_chunked_summary__
Truthy(a) == a.kind = "dict" /\ (~a.empty \/ a.chunked)

\* the return statements of _process_file
Return(r, status, reason) == [r EXCEPT !.pc = "done", !.status = status, !.reason = reason]

\* the log of the retry loop the worker is in, with this attempt's outcome:
\* the provider call made, the outcomes of its attempts, the sleeps between
\* them, the static_analysis_findings argument of this attempt, and how it
\* ended
Log(r, kind, o, findings) ==
    IF r.attempt = 0
    THEN [kind |-> kind, tried |-> <<o>>, sleeps |-> <<>>, state |-> "-", chunk |-> r.i + 1,
          findings |-> findings]
    ELSE [r.last_call EXCEPT !.tried = Append(@, o), !.findings = findings]

\* one pass of `for attempt in range(retries)` whose call raised
\* (processor.py:95-101, :117-123): sleep and go round, or re-raise
Failed(r, call) ==
    IF r.attempt < Retries - 1
    THEN [r EXCEPT !.attempt = @ + 1,
                   !.calls.failed = @ + 1,
                   !.last_call = [call EXCEPT !.sleeps = Append(@, Backoff(r.attempt)),
                                              !.state = "retrying"]]
    ELSE Return([r EXCEPT !.calls.failed = @ + 1,
                          !.last_call = [call EXCEPT !.state = "raised"]],
                "failed", "llm_error")

\* ------------------------------------------------------------------- Init

Init ==
    /\ input_dir = {FileA}
    /\ content \in {c \in [Files -> ContentLens] : \A f \in Files \ input_dir : c[f] = 40}
    /\ reports = <<>>
    /\ cache_file = [state |-> "absent", doc |-> <<>>]
    /\ hash_memo = [f \in Files |-> NoHash]
    /\ report_format \in Formats
    /\ cache = <<>>
    /\ phase = "idle"
    /\ runs = 0
    /\ w = [f \in Files |-> Idle]
    /\ results = <<>>
    /\ proc = Plain
    /\ chunker = NoChunker
    /\ client = NoClient

\* ---------------------------------------------------------------- actions

\* main(): a new process; the lru_cache starts empty, the configuration is
\* read and CodeAnalyzerProcessor.__init__ loads the cache
Restart(fmt) ==
    /\ phase = "idle"
    /\ runs < MaxRuns
    /\ hash_memo' = [f \in Files |-> NoHash]
    /\ report_format' = fmt
    /\ cache' = load_cache(cache_file)
    /\ UNCHANGED <<input_dir, content, reports, cache_file, phase, runs, w, results, proc, chunker, client>>

\* run_analysis, to the submission of every discovered file
RunAnalysis ==
    /\ phase = "idle"
    /\ runs < MaxRuns
    /\ phase' = "running"
    /\ runs' = runs + 1
    /\ w' = [f \in Files |-> IF f \in input_dir THEN [Idle EXCEPT !.pc = "start"] ELSE Idle]
    /\ results' = <<>>
    /\ UNCHANGED <<input_dir, content, reports, cache_file, hash_memo, report_format, cache, proc, chunker, client>>

\* the cache check with eviction: an entry that no longer matches the file
\* is deleted from the cache
CheckCacheEvicts(f) ==
    /\ w[f].pc = "start"
    /\ \E h \in IF hash_memo[f] # NoHash THEN {hash_memo[f]}
                 ELSE {Digest(content[f]), ERROR_HASH} :
          /\ hash_memo' = [hash_memo EXCEPT ![f] = h]
          /\ w' = [w EXCEPT ![f] =
                     IF Unchanged(f, h)
                     THEN Return([@ EXCEPT !.file_hash = h], "skipped", "unchanged")
                     ELSE [@ EXCEPT !.file_hash = h, !.pc = "is_text"]]
          /\ cache' = IF Unchanged(f, h) THEN cache ELSE Del(cache, f)
    /\ UNCHANGED <<input_dir, content, reports, cache_file, report_format, phase, runs, results, proc, chunker, client>>

\* _process_file, lines 42-54: the fingerprint and the cache check
CheckCache(f) ==
    /\ w[f].pc = "start"
    /\ \E h \in IF hash_memo[f] # NoHash THEN {hash_memo[f]}
                 ELSE {Digest(content[f]), ERROR_HASH} :
          /\ hash_memo' = [hash_memo EXCEPT ![f] = h]
          /\ w' = [w EXCEPT ![f] =
                     IF Unchanged(f, h)
                     THEN Return([@ EXCEPT !.file_hash = h], "skipped", "unchanged")
                     ELSE [@ EXCEPT !.file_hash = h, !.pc = "is_text"]]
    /\ UNCHANGED <<input_dir, content, reports, cache_file, report_format, cache, phase, runs, results, proc, chunker, client>>

\* lines 56-58: is_text_file is False when the file cannot be opened
IsText(f) ==
    /\ w[f].pc = "is_text"
    /\ \E opened \in BOOLEAN :
          w' = [w EXCEPT ![f] = IF opened THEN [@ EXCEPT !.pc = "read"]
                                ELSE Return(@, "skipped", "not_text_file")]
    /\ UNCHANGED <<input_dir, content, reports, cache_file, hash_memo, report_format, cache, phase, runs, results, proc, chunker, client>>

\* lines 60-64
ReadFile(f) ==
    /\ w[f].pc = "read"
    /\ \E opened \in BOOLEAN :
          w' = [w EXCEPT ![f] = IF opened THEN [@ EXCEPT !.pc = "static"]
                                ELSE Return(@, "failed", "file_read_error")]
    /\ UNCHANGED <<input_dir, content, reports, cache_file, hash_memo, report_format, cache, phase, runs, results, proc, chunker, client>>

\* lines 66-74: what format_findings_for_llm makes of the findings of the
\* static analysis of f, a function of the file's text: the longer text has
\* flagged lines, the shorter has none (the empty string, as when the
\* analysis is disabled)
static_analysis_findings_str(f) == IF content[f] > 40 THEN "findings" ELSE ""

\* lines 66-74: the static-analysis collaborator, when it is enabled, is
\* called outside every try block: an exception of it leaves _process_file
\* and is set on the future
StaticAnalysis(f) ==
    /\ w[f].pc = "static"
    /\ \E raised \in BOOLEAN :
          w' = [w EXCEPT ![f] = [@ EXCEPT !.pc = IF raised THEN "raised" ELSE "count"]]
    /\ UNCHANGED <<input_dir, content, reports, cache_file, hash_memo, report_format, cache, phase, runs, results, proc, chunker, client>>

\* the chunking decision with `>=` for `>` at line 79
CountTokensAtLeast(f) ==
    /\ w[f].pc = "count"
    /\ LET r == [w[f] EXCEPT !.calls.token = @ + 1]
       IN  \E counted \in BOOLEAN :
             IF ~counted
             THEN w' = [w EXCEPT ![f] = Return(r, "failed", "unexpected_error: get_token_count")]
             ELSE IF get_token_count(content[f]) >= ContextWindow
             THEN \E k \in 0..MaxChunks :
                    w' = [w EXCEPT ![f] = [r EXCEPT !.pc = "chunks", !.k = k]]
             ELSE w' = [w EXCEPT ![f] = [r EXCEPT !.pc = "single"]]
    /\ UNCHANGED <<input_dir, content, reports, cache_file, hash_memo, report_format, cache, phase, runs, results, proc, chunker, client>>

\* lines 78-82 and 110-112: the chunking decision; the estimate may raise
\* (tiktoken has no encoding for the model), which the handler at 140-142
\* turns into a failed file
CountTokens(f) ==
    /\ w[f].pc = "count"
    /\ LET r == [w[f] EXCEPT !.calls.token = @ + 1]
       IN  \E counted \in BOOLEAN :
             IF ~counted
             THEN w' = [w EXCEPT ![f] = Return(r, "failed", "unexpected_error: get_token_count")]
             ELSE IF get_token_count(content[f]) > ContextWindow
             THEN \E k \in 0..MaxChunks :
                    w' = [w EXCEPT ![f] = [r EXCEPT !.pc = "chunks", !.k = k]]
             ELSE w' = [w EXCEPT ![f] = [r EXCEPT !.pc = "single"]]
    /\ UNCHANGED <<input_dir, content, reports, cache_file, hash_memo, report_format, cache, phase, runs, results, proc, chunker, client>>

\* the chunk loop with the exception of the last attempt swallowed: a chunk
\* that used up its attempts is left out and the loop goes on
AnalyzeChunkTolerant(f) ==
    /\ w[f].pc = "chunks"
    /\ w[f].i < w[f].k
    /\ \E o \in Outcomes :
          LET r == [w[f] EXCEPT !.calls.analyze = @ + 1]
              call == Log(r, "analyze", o,
                          IF r.i = 0 THEN static_analysis_findings_str(f) ELSE "")
          IN  w' = [w EXCEPT ![f] =
                IF Caught(o) /\ r.attempt < Retries - 1 THEN Failed(r, call)
                ELSE IF Caught(o)
                THEN [r EXCEPT !.i = @ + 1,
                               !.attempt = 0,
                               !.calls.failed = @ + 1,
                               !.last_call = [call EXCEPT !.state = "raised"]]
                ELSE [r EXCEPT !.chunk_analyses = Append(@, r.i + 1),
                               !.i = @ + 1,
                               !.attempt = 0,
                               !.last_call = [call EXCEPT !.state = "returned"]]]
    /\ UNCHANGED <<input_dir, content, reports, cache_file, hash_memo, report_format, cache, phase, runs, results, proc, chunker, client>>

\* the chunk loop with the findings passed along with every chunk
AnalyzeChunkWithFindings(f) ==
    /\ w[f].pc = "chunks"
    /\ w[f].i < w[f].k
    /\ \E o \in Outcomes :
          LET r == [w[f] EXCEPT !.calls.analyze = @ + 1]
              call == Log(r, "analyze", o, static_analysis_findings_str(f))
          IN  w' = [w EXCEPT ![f] =
                IF Caught(o) THEN Failed(r, call)
                ELSE [r EXCEPT !.chunk_analyses = Append(@, r.i + 1),
                               !.i = @ + 1,
                               !.attempt = 0,
                               !.last_call = [call EXCEPT !.state = "returned"]]]
    /\ UNCHANGED <<input_dir, content, reports, cache_file, hash_memo, report_format, cache, phase, runs, results, proc, chunker, client>>

\* lines 84-101: one attempt at the chunk with index i; the findings go
\* with the first chunk only (line 91)
AnalyzeChunk(f) ==
    /\ w[f].pc = "chunks"
    /\ w[f].i < w[f].k
    /\ \E o \in Outcomes :
          LET r == [w[f] EXCEPT !.calls.analyze = @ + 1]
              call == Log(r, "analyze", o,
                          IF r.i = 0 THEN static_analysis_findings_str(f) ELSE "")
          IN  w' = [w EXCEPT ![f] =
                IF Caught(o) THEN Failed(r, call)
                ELSE [r EXCEPT !.chunk_analyses = Append(@, r.i + 1),
                               !.i = @ + 1,
                               !.attempt = 0,
                               !.last_call = [call EXCEPT !.state = "returned"]]]
    /\ UNCHANGED <<input_dir, content, reports, cache_file, hash_memo, report_format, cache, phase, runs, results, proc, chunker, client>>

\* lines 103-109, after the loop over the chunks; the result carries the key
\* __is_chunked_summary__, so line 125 finds it true
Summarize(f) ==
    /\ w[f].pc = "chunks"
    /\ w[f].i = w[f].k
    /\ IF w[f].chunk_analyses # <<>>
       THEN \E o \in Outcomes :
              LET r == [w[f] EXCEPT !.calls.summarize = @ + 1]
                  call == [kind |-> "summarize", tried |-> <<o>>, sleeps |-> <<>>,
                           state |-> IF Caught(o) THEN "raised" ELSE "returned", chunk |-> 0,
                           findings |-> ""]
              IN  w' = [w EXCEPT ![f] =
                    IF Caught(o)
                    THEN Return([r EXCEPT !.calls.failed = @ + 1, !.last_call = call],
                                "failed", "llm_error")
                    ELSE [r EXCEPT !.last_call = call,
                                   !.pc = "save_report",
                                   !.analysis_result = [kind |-> "dict", src |-> "summarize",
                                                        empty |-> o = "empty", chunked |-> TRUE]]]
       ELSE w' = [w EXCEPT ![f] =
                    [@ EXCEPT !.pc = "save_report",
                              !.analysis_result = [kind |-> "dict", src |-> "placeholder",
                                                   empty |-> FALSE, chunked |-> TRUE]]]
    /\ UNCHANGED <<input_dir, content, reports, cache_file, hash_memo, report_format, cache, phase, runs, results, proc, chunker, client>>

\* lines 112-125 and 133-135: one attempt at the whole file
AnalyzeWhole(f) ==
    /\ w[f].pc = "single"
    /\ \E o \in Outcomes :
          LET r == [w[f] EXCEPT !.calls.analyze = @ + 1]
              call == Log(r, "analyze", o, static_analysis_findings_str(f))
              got == [r EXCEPT !.last_call = [call EXCEPT !.state = "returned"],
                               !.analysis_result = [kind |-> "dict", src |-> "analyze",
                                                    empty |-> o = "empty", chunked |-> FALSE]]
          IN  w' = [w EXCEPT ![f] =
                IF Caught(o) THEN Failed(r, call)
                ELSE IF Truthy(got.analysis_result) THEN [got EXCEPT !.pc = "save_report"]
                ELSE Return(got, "failed", "empty_llm_result")]
    /\ UNCHANGED <<input_dir, content, reports, cache_file, hash_memo, report_format, cache, phase, runs, results, proc, chunker, client>>

\* lines 127 and 128 in the other order: the entry is assigned, under the
\* expected path, before save_report has run
SaveReportAfterCache(f) ==
    /\ w[f].pc = "save_report"
    /\ cache' = Put(cache, f, [hash |-> w[f].file_hash, timestamp |-> runs,
                               report_path |-> ExpectedReportPath(f, report_format)])
    /\ w' = [w EXCEPT ![f] = [@ EXCEPT !.pc = "save_cache"]]
    /\ UNCHANGED <<input_dir, content, reports, cache_file, hash_memo, report_format, phase, runs, results, proc, chunker, client>>

\* save_report with the assignment of line 128 made before it: the entry,
\* under the expected path, is in the cache whether the write succeeds or not
SaveReportRecordsFirst(f) ==
    /\ w[f].pc = "save_report"
    /\ cache' = Put(cache, f, [hash |-> w[f].file_hash, timestamp |-> runs,
                               report_path |-> ExpectedReportPath(f, report_format)])
    /\ \E outcome \in SaveOutcomes :
          IF outcome = "written"
          THEN /\ reports' = Put(reports, SaveReportPath(f, report_format), f)
               /\ w' = [w EXCEPT ![f] = [@ EXCEPT !.pc = "record",
                             !.last_call = NoCall,
                             !.report_filepath = SaveReportPath(f, report_format)]]
          ELSE /\ reports' = IF outcome = "partial"
                             THEN Put(reports, SaveReportPath(f, report_format), f)
                             ELSE reports
               /\ w' = [w EXCEPT ![f] = Return(@, "failed", "unexpected_error: save_report")]
    /\ UNCHANGED <<input_dir, content, cache_file, hash_memo, report_format, phase, runs, results, proc, chunker, client>>

\* lines 126-127 and 140-142: save_report writes the artifact, or raises
\* before its open or after its open has created or emptied the artifact;
\* the analysis is over, and its log of attempts is dropped
SaveReport(f) ==
    /\ w[f].pc = "save_report"
    /\ \E outcome \in SaveOutcomes :
          IF outcome = "written"
          THEN /\ reports' = Put(reports, SaveReportPath(f, report_format), f)
               /\ w' = [w EXCEPT ![f] = [@ EXCEPT !.pc = "record",
                             !.last_call = NoCall,
                             !.report_filepath = SaveReportPath(f, report_format)]]
          ELSE /\ reports' = IF outcome = "partial"
                             THEN Put(reports, SaveReportPath(f, report_format), f)
                             ELSE reports
               /\ w' = [w EXCEPT ![f] = Return(@, "failed", "unexpected_error: save_report")]
    /\ UNCHANGED <<input_dir, content, cache_file, hash_memo, report_format, cache, phase, runs, results, proc, chunker, client>>

\* line 128 as self.cache.setdefault(filepath, {...}): an entry the path
\* already has is kept
RecordCacheKeepsFirst(f) ==
    /\ w[f].pc = "record"
    /\ cache' = IF f \in DOMAIN cache THEN cache
                ELSE Put(cache, f, [hash |-> w[f].file_hash, timestamp |-> runs,
                                    report_path |-> w[f].report_filepath])
    /\ w' = [w EXCEPT ![f] = [@ EXCEPT !.pc = "save_cache"]]
    /\ UNCHANGED <<input_dir, content, reports, cache_file, hash_memo, report_format, phase, runs, results, proc, chunker, client>>

\* line 128 on a copy of the cache read back from cache.json instead of on
\* the dict the workers share
RecordCacheFromDisk(f) ==
    /\ w[f].pc = "record"
    /\ cache' = Put(load_cache(cache_file), f,
                    [hash |-> w[f].file_hash, timestamp |-> runs,
                     report_path |-> w[f].report_filepath])
    /\ w' = [w EXCEPT ![f] = [@ EXCEPT !.pc = "save_cache"]]
    /\ UNCHANGED <<input_dir, content, reports, cache_file, hash_memo, report_format, phase, runs, results, proc, chunker, client>>

\* line 128: one dict assignment, atomic under the interpreter lock
RecordCache(f) ==
    /\ w[f].pc = "record"
    /\ cache' = Put(cache, f, [hash |-> w[f].file_hash, timestamp |-> runs,
                               report_path |-> w[f].report_filepath])
    /\ w' = [w EXCEPT ![f] = [@ EXCEPT !.pc = "save_cache"]]
    /\ UNCHANGED <<input_dir, content, reports, cache_file, hash_memo, report_format, phase, runs, results, proc, chunker, client>>

\* the file a writer leaves that has written all of doc from offset 0 over
\* what the file held: bytes of a longer document written since this
\* writer's open truncated the file stay behind its own
Overwrite(file, doc) ==
    IF file.state = "ok" /\ Cardinality(DOMAIN file.doc) > Cardinality(DOMAIN doc)
    THEN [state |-> "torn", doc |-> <<>>]
    ELSE [state |-> "ok", doc |-> doc]

\* utils.py:37-44 with no other thread running: the whole cache is written,
\* or IOError is logged, before the open or after it has truncated the file
save_cache(outcome) ==
    cache_file' = IF outcome = "written" THEN [state |-> "ok", doc |-> cache]
                  ELSE IF outcome = "partial" THEN [state |-> "partial", doc |-> <<>>]
                  ELSE cache_file

\* line 130, utils.py:39-40: open(cache_path, 'w') truncates cache.json and
\* json.dump starts to iterate the dict; an IOError of open is logged
OpenCache(f) ==
    /\ w[f].pc = "save_cache"
    /\ \E opened \in BOOLEAN :
          IF opened
          THEN /\ cache_file' = [state |-> "truncated", doc |-> <<>>]
               /\ w' = [w EXCEPT ![f] = [@ EXCEPT !.pc = "dump", !.iter = DOMAIN cache]]
          ELSE /\ cache_file' = cache_file
               /\ w' = [w EXCEPT ![f] = Return(@, "success", "-")]
    /\ UNCHANGED <<input_dir, content, reports, hash_memo, report_format, cache, phase, runs, results, proc, chunker, client>>

\* utils.py:41-44 and lines 131-132, 140-142: json.dump ends and the file is
\* closed.  A key inserted by another thread while the dict was iterated
\* raises RuntimeError, which save_cache does not catch; an IOError of the
\* write is logged.  The text is flushed when the file is closed.
SaveCache(f) ==
    /\ w[f].pc = "dump"
    /\ \E outcome \in {"written", "partial"}, resized \in BOOLEAN :
          LET doc == [x \in w[f].iter |-> cache[x]]
              r == [w[f] EXCEPT !.iter = {}]
          IN  IF resized /\ DOMAIN cache # w[f].iter
              THEN /\ cache_file' = [state |-> "partial", doc |-> <<>>]
                   /\ w' = [w EXCEPT ![f] = Return(r, "failed", "unexpected_error: json.dump")]
              ELSE /\ cache_file' = IF outcome = "written" THEN Overwrite(cache_file, doc)
                                    ELSE [state |-> "partial", doc |-> <<>>]
                   /\ w' = [w EXCEPT ![f] = Return(r, "success", "-")]
    /\ UNCHANGED <<input_dir, content, reports, hash_memo, report_format, cache, phase, runs, results, proc, chunker, client>>

\* the collecting loop with `pass` in the handler of line 170: the record of
\* a future that raised is not appended
CollectDropsRaised(f) ==
    /\ phase = "running"
    /\ ~proc.interrupted
    /\ w[f].pc \in {"done", "raised"}
    /\ \A j \in DOMAIN results : results[j].filepath # f
    /\ results' = IF w[f].pc = "done"
                  THEN Append(results, [filepath |-> f, status |-> w[f].status,
                                        reason |-> w[f].reason])
                  ELSE results
    /\ w' = [w EXCEPT ![f] = [Idle EXCEPT !.pc = "collected",
                                          !.file_hash = w[f].file_hash,
                                          !.report_filepath = w[f].report_filepath]]
    /\ UNCHANGED <<input_dir, content, reports, cache_file, hash_memo, report_format, cache, phase, runs, proc, chunker, client>>

\* run_analysis, lines 165-172, in the main thread while it has not been
\* interrupted: as_completed hands over a finished future;
\* its result, or a record made from its exception, is appended.  Of
\* the worker's frame, what it hashed and what it wrote stay on record.
Collect(f) ==
    /\ phase = "running"
    /\ ~proc.interrupted
    /\ w[f].pc \in {"done", "raised"}
    /\ \A j \in DOMAIN results : results[j].filepath # f
    /\ results' = Append(results,
                     IF w[f].pc = "done"
                     THEN [filepath |-> f, status |-> w[f].status, reason |-> w[f].reason]
                     ELSE [filepath |-> f, status |-> "failed",
                           reason |-> "executor_critical_error"])
    /\ w' = [w EXCEPT ![f] = [Idle EXCEPT !.pc = "collected",
                                          !.file_hash = w[f].file_hash,
                                          !.report_filepath = w[f].report_filepath]]
    /\ UNCHANGED <<input_dir, content, reports, cache_file, hash_memo, report_format, cache, phase, runs, proc, chunker, client>>

\* the lists of the summary, lines 174-176
successful_reports == {j \in DOMAIN results : results[j].status = "success"}

failed_reports == {j \in DOMAIN results : results[j].status = "failed"}

skipped_reports == {j \in DOMAIN results : results[j].status = "skipped"}

\* run_analysis returning without the save of line 190
FinishRunWithoutSave(outcome) ==
    /\ phase = "running"
    /\ ~proc.interrupted
    /\ Len(results) = Cardinality(input_dir)
    /\ phase' = "idle"
    /\ w' = [f \in Files |-> Idle]
    /\ results' = <<>>
    /\ UNCHANGED <<input_dir, content, reports, cache_file, hash_memo, report_format, cache, runs, proc, chunker, client>>

\* run_analysis, lines 165-190: every future has been collected and the
\* executor has been left, so no worker is running; the summary, and the
\* final save, whose writing does `outcome`
FinishRunWith(outcome) ==
    /\ phase = "running"
    /\ ~proc.interrupted
    /\ Len(results) = Cardinality(input_dir)
    /\ save_cache(outcome)
    /\ phase' = "idle"
    /\ w' = [f \in Files |-> Idle]
    /\ results' = <<>>
    /\ UNCHANGED <<input_dir, content, reports, hash_memo, report_format, cache, runs, proc, chunker, client>>

\* run_analysis, lines 165-190: every future has been collected; the summary
\* and the final save
FinishRun == \E outcome \in SaveOutcomes : FinishRunWith(outcome)

\* the environment, between runs: a file is edited
ModifyFile(f, c) ==
    /\ phase = "idle"
    /\ runs < MaxRuns
    /\ f \in input_dir
    /\ content[f] # c
    /\ content' = [content EXCEPT ![f] = c]
    /\ UNCHANGED <<input_dir, reports, cache_file, hash_memo, report_format, cache, phase, runs, w, results, proc, chunker, client>>

\* the environment, between runs: a report artifact is deleted
DeleteReport(p) ==
    /\ phase = "idle"
    /\ runs < MaxRuns
    /\ p \in DOMAIN reports
    /\ reports' = Del(reports, p)
    /\ UNCHANGED <<input_dir, content, cache_file, hash_memo, report_format, cache, phase, runs, w, results, proc, chunker, client>>

Next ==
    \/ \E fmt \in Formats : Restart(fmt)
    \/ RunAnalysis
    \/ \E f \in Files : CheckCache(f)
    \/ \E f \in Files : IsText(f)
    \/ \E f \in Files : ReadFile(f)
    \/ \E f \in Files : StaticAnalysis(f)
    \/ \E f \in Files : CountTokens(f)
    \/ \E f \in Files : AnalyzeChunk(f)
    \/ \E f \in Files : Summarize(f)
    \/ \E f \in Files : AnalyzeWhole(f)
    \/ \E f \in Files : SaveReport(f)
    \/ \E f \in Files : RecordCache(f)
    \/ \E f \in Files : OpenCache(f)
    \/ \E f \in Files : SaveCache(f)
    \/ \E f \in Files : Collect(f)
    \/ FinishRun
    \/ \E f \in Files, c \in ContentLens : ModifyFile(f, c)
    \/ \E p \in DOMAIN reports : DeleteReport(p)

Spec == Init /\ [][Next]_vars

\* ---------------------------------------------------------- the thread pool

\* The one run_analysis of a process over two files in the
\* ThreadPoolExecutor (lines 161-172; max_workers = os.cpu_count() * 2 is at
\* least 2): the steps of the two workers and of the collecting thread
\* interleave freely.  FileB stays within the context window.  An earlier
\* process may have analysed FileB, with the text it has now or another,
\* when FileA did not exist yet: its entry is in cache.json, which
\* __init__ has loaded (line 35), and its report in output_dir.

\* one format for each way save_report names the artifact: with
\* str.replace (json, and markdown alike) and without (text)
PoolFormats == {"json", "text"}

\* the cache an earlier run left after it analysed f with text c
Earlier(f, c, fmt) ==
    Put(<<>>, f, [hash |-> Digest(c), timestamp |-> 0, report_path |-> SaveReportPath(f, fmt)])

InitPool ==
    /\ input_dir = Files
    /\ content \in {c \in [Files -> ContentLens] : c[FileB] = 40}
    /\ hash_memo = [f \in Files |-> NoHash]
    /\ report_format \in PoolFormats
    /\ \/ /\ cache_file = [state |-> "absent", doc |-> <<>>]
          /\ reports = <<>>
       \/ \E c \in ContentLens :
             /\ cache_file = [state |-> "ok", doc |-> Earlier(FileB, c, report_format)]
             /\ reports = Put(<<>>, SaveReportPath(FileB, report_format), FileB)
    /\ cache = load_cache(cache_file)
    /\ phase = "idle"
    /\ runs = 0
    /\ w = [f \in Files |-> Idle]
    /\ results = <<>>
    /\ proc = Plain
    /\ chunker = NoChunker
    /\ client = NoClient

\* the first run_analysis of the process (main.py:109-110)
RunPool == runs = 0 /\ RunAnalysis

NextPool ==
    \/ RunPool
    \/ \E f \in Files : CheckCache(f)
    \/ \E f \in Files : IsText(f)
    \/ \E f \in Files : ReadFile(f)
    \/ \E f \in Files : StaticAnalysis(f)
    \/ \E f \in Files : CountTokens(f)
    \/ \E f \in Files : AnalyzeChunk(f)
    \/ \E f \in Files : Summarize(f)
    \/ \E f \in Files : AnalyzeWhole(f)
    \/ \E f \in Files : SaveReport(f)
    \/ \E f \in Files : RecordCache(f)
    \/ \E f \in Files : OpenCache(f)
    \/ \E f \in Files : SaveCache(f)
    \/ \E f \in Files : Collect(f)
    \/ FinishRun

SpecPool == InitPool /\ [][NextPool]_vars

\* a step of the worker thread that executes _process_file(f)
Worker(f) ==
    \/ CheckCache(f)
    \/ IsText(f)
    \/ ReadFile(f)
    \/ StaticAnalysis(f)
    \/ CountTokens(f)
    \/ AnalyzeChunk(f)
    \/ Summarize(f)
    \/ AnalyzeWhole(f)
    \/ SaveReport(f)
    \/ RecordCache(f)
    \/ OpenCache(f)
    \/ SaveCache(f)

\* the pool of a first run: no cache.json yet, reports as JSON, FileA
\* larger than the context window (chunked) and FileB within it
InitFairPool ==
    /\ InitPool
    /\ content[FileA] = 44
    /\ report_format = "json"
    /\ cache_file.state = "absent"

\* The pool when every call returns: each provider call, each file
\* operation and each time.sleep comes back, with a result or an error, and
\* the scheduler lets every thread run, so a worker that can take a step
\* takes it, and so does the thread that executes run_analysis.
FairSpecPool ==
    /\ InitFairPool
    /\ [][NextPool]_vars
    /\ \A f \in Files : WF_vars(Worker(f))
    /\ WF_vars(RunPool)
    /\ WF_vars(\E f \in Files : Collect(f))
    /\ WF_vars(FinishRun)

\* -------------------------------------------------------- the command line

\* One file, within the context window, analysed by successive processes
\* `python main.py [--no-cache]`, all started from one directory, which is
\* the directory of main.py or another; between processes the file or its
\* report may be removed.

\* the llm section of the configuration as _initialize_llm finds it
LLMConfigs == {"ok", "unsupported_type", "no_api_key"}

\* main() with a backend that is built at its first use: the llm section is
\* not looked at when the processor is constructed
MainLazyLLM(no_cache, llm, readable) ==
    /\ phase \in {"idle", "exited: config", "exited: load_cache"}
    /\ runs < MaxRuns
    /\ LET removed == no_cache /\ proc.cwd = "app" /\ cache_file.state # "absent"
           file == IF removed THEN [state |-> "absent", doc |-> <<>>] ELSE cache_file
       IN  /\ cache_file' = file
           /\ IF file.state # "absent" /\ ~readable
              THEN phase' = "exited: load_cache" /\ cache' = <<>>
              ELSE phase' = "constructed" /\ cache' = load_cache(file)
    /\ proc' = [proc EXCEPT !.no_cache = no_cache, !.llm = llm]
    /\ hash_memo' = [f \in Files |-> NoHash]
    /\ UNCHANGED <<input_dir, content, reports, report_format, runs, w, results, chunker, client>>

\* main(), lines 84-109 and 114-119: the configuration is loaded, --no-cache
\* removes cache.json of the directory of main.py, and the processor is
\* built: LLMManager first (processor.py:22), then load_cache on cache.json
\* of the working directory (processor.py:35), which catches JSONDecodeError
\* only.  Whatever is raised ends the process with sys.exit(1).
Main(no_cache, llm, readable) ==
    /\ phase \in {"idle", "exited: config", "exited: load_cache"}
    /\ runs < MaxRuns
    /\ LET removed == no_cache /\ proc.cwd = "app" /\ cache_file.state # "absent"
           file == IF removed THEN [state |-> "absent", doc |-> <<>>] ELSE cache_file
       IN  /\ cache_file' = file
           /\ IF llm # "ok"
              THEN phase' = "exited: config" /\ cache' = <<>>
              ELSE IF file.state # "absent" /\ ~readable
              THEN phase' = "exited: load_cache" /\ cache' = <<>>
              ELSE phase' = "constructed" /\ cache' = load_cache(file)
    /\ proc' = [proc EXCEPT !.no_cache = no_cache, !.llm = llm]
    /\ hash_memo' = [f \in Files |-> NoHash]
    /\ UNCHANGED <<input_dir, content, reports, report_format, runs, w, results, chunker, client>>

\* main.py:110 and run_analysis, lines 146-162: the files are discovered
\* and submitted, or there is none and run_analysis returns at line 157
RunMain ==
    /\ phase = "constructed"
    /\ runs' = runs + 1
    /\ IF input_dir = {}
       THEN phase' = "idle" /\ w' = w
       ELSE /\ phase' = "running"
            /\ w' = [f \in Files |-> IF f \in input_dir THEN [Idle EXCEPT !.pc = "start"]
                                     ELSE Idle]
    /\ results' = <<>>
    /\ UNCHANGED <<input_dir, content, reports, cache_file, hash_memo, report_format, cache, proc, chunker, client>>

\* the environment, between processes: a source file is removed
RemoveFile(f) ==
    /\ phase = "idle"
    /\ runs < MaxRuns
    /\ f \in input_dir
    /\ input_dir' = input_dir \ {f}
    /\ UNCHANGED <<content, reports, cache_file, hash_memo, report_format, cache, phase, runs, w,
                   results, proc, chunker, client>>

\* the environment, between processes: the file is put back as it was
RestoreFile(f) ==
    /\ phase = "idle"
    /\ runs < MaxRuns
    /\ f = FileA
    /\ f \notin input_dir
    /\ input_dir' = input_dir \cup {f}
    /\ UNCHANGED <<content, reports, cache_file, hash_memo, report_format, cache, phase, runs, w,
                   results, proc, chunker, client>>

InitMain ==
    /\ input_dir = {FileA}
    /\ content = [f \in Files |-> 40]
    /\ reports = <<>>
    /\ cache_file = [state |-> "absent", doc |-> <<>>]
    /\ hash_memo = [f \in Files |-> NoHash]
    /\ report_format = "json"
    /\ cache = <<>>
    /\ phase = "idle"
    /\ runs = 0
    /\ w = [f \in Files |-> Idle]
    /\ results = <<>>
    /\ proc \in {[Plain EXCEPT !.cwd = d] : d \in {"app", "other"}}
    /\ chunker = NoChunker
    /\ client = NoClient

NextMain ==
    \/ \E no_cache \in BOOLEAN, llm \in LLMConfigs, readable \in BOOLEAN :
          Main(no_cache, llm, readable)
    \/ RunMain
    \/ \E f \in Files : CheckCache(f)
    \/ \E f \in Files : IsText(f)
    \/ \E f \in Files : ReadFile(f)
    \/ \E f \in Files : StaticAnalysis(f)
    \/ \E f \in Files : CountTokens(f)
    \/ \E f \in Files : AnalyzeWhole(f)
    \/ \E f \in Files : SaveReport(f)
    \/ \E f \in Files : RecordCache(f)
    \/ \E f \in Files : OpenCache(f)
    \/ \E f \in Files : SaveCache(f)
    \/ \E f \in Files : Collect(f)
    \/ FinishRun
    \/ \E f \in Files : RemoveFile(f)
    \/ \E f \in Files : RestoreFile(f)
    \/ \E p \in DOMAIN reports : DeleteReport(p)

SpecMain == InitMain /\ [][NextMain]_vars

\* ------------------------------------------------------- a writable cache
\*
\* The pool when cache.json can be written: every open of it succeeds and
\* no write to it fails.  What the workers do to each other stays: a dump
\* that another worker's insertion breaks, two writers of the one file.

\* line 130, utils.py:39-40, when the open succeeds
OpenWritable(f) == OpenCache(f) /\ w'[f].pc = "dump"

\* utils.py:41-44 when no write fails: the file is left as the head of a
\* document only by a dump that raised RuntimeError
SaveWritable(f) ==
    /\ SaveCache(f)
    /\ cache_file'.state = "partial" => w'[f].status = "failed"

\* lines 165-190 when the final save writes all
FinishWritable == FinishRunWith("written")

NextWritable ==
    \/ RunPool
    \/ \E f \in Files : CheckCache(f)
    \/ \E f \in Files : IsText(f)
    \/ \E f \in Files : ReadFile(f)
    \/ \E f \in Files : StaticAnalysis(f)
    \/ \E f \in Files : CountTokens(f)
    \/ \E f \in Files : AnalyzeChunk(f)
    \/ \E f \in Files : Summarize(f)
    \/ \E f \in Files : AnalyzeWhole(f)
    \/ \E f \in Files : SaveReport(f)
    \/ \E f \in Files : RecordCache(f)
    \/ \E f \in Files : OpenWritable(f)
    \/ \E f \in Files : SaveWritable(f)
    \/ \E f \in Files : Collect(f)
    \/ FinishWritable

SpecWritable == InitPool /\ [][NextWritable]_vars

\* --------------------------------------------------------------- stopping
\*
\* run_analysis (processor.py:144-190) has no stop flag, event or
\* cancellation of futures.  What can ask a running analysis to stop is an
\* interrupt of the process (SIGINT): KeyboardInterrupt is raised in the
\* main thread, which is in the loop over as_completed.

\* two files of a first run, both within the context window
InitStop ==
    /\ InitPool
    /\ content[FileA] = 40
    /\ report_format = "json"
    /\ cache_file.state = "absent"

\* KeyboardInterrupt in the main thread, lines 165-172: it is no Exception,
\* so the handler of line 170 does not catch it, and the loop is left
Interrupt ==
    /\ phase = "running"
    /\ ~proc.interrupted
    /\ proc' = [proc EXCEPT !.interrupted = TRUE]
    /\ UNCHANGED <<input_dir, content, reports, cache_file, hash_memo, report_format, cache, phase,
                   runs, w, results, chunker, client>>

\* the exception leaves the `with` block of line 162: the executor's
\* __exit__ is shutdown(wait=True), which cancels nothing and returns when
\* every submitted _process_file has ended; then the exception leaves
\* run_analysis before the save of line 190, and main(), whose handlers
\* (main.py:114-119) catch Exception only
ExitInterrupted ==
    /\ phase = "running"
    /\ proc.interrupted
    /\ \A f \in input_dir : w[f].pc \in {"done", "raised", "collected"}
    /\ phase' = "exited: interrupted"
    /\ UNCHANGED <<input_dir, content, reports, cache_file, hash_memo, report_format, cache, runs,
                   w, results, proc, chunker, client>>

NextStop ==
    \/ RunPool
    \/ \E f \in Files : CheckCache(f)
    \/ \E f \in Files : IsText(f)
    \/ \E f \in Files : ReadFile(f)
    \/ \E f \in Files : StaticAnalysis(f)
    \/ \E f \in Files : CountTokens(f)
    \/ \E f \in Files : AnalyzeWhole(f)
    \/ \E f \in Files : SaveReport(f)
    \/ \E f \in Files : RecordCache(f)
    \/ \E f \in Files : OpenCache(f)
    \/ \E f \in Files : SaveCache(f)
    \/ \E f \in Files : Collect(f)
    \/ FinishRun
    \/ Interrupt
    \/ ExitInterrupted

SpecStop == InitStop /\ [][NextStop]_vars

\* ------------------------------------------------------------ the chunker
\*
\* LLMClient._chunk_code (llm_client.py:54-91), a pure function of a text
\* and a size.  A text is a sequence of characters; the texts drawn hold a
\* letter, the space and the newline, so splitlines breaks after "\n" only
\* and textwrap sees words without hyphens or tabs.

MaxLen == 5

MaxSize == 3

Chars == {"a", " ", "\n"}

\* string.whitespace, as far as Chars goes
Whitespace == {" ", "\n"}

RECURSIVE TextsOfLen(_)
TextsOfLen(n) ==
    IF n = 0 THEN {<<>>}
    ELSE {Append(t, c) : t \in TextsOfLen(n - 1), c \in Chars}

Texts == UNION {TextsOfLen(n) : n \in 0..MaxLen}

\* "".join(parts)
RECURSIVE Join(_)
Join(parts) == IF parts = <<>> THEN <<>> ELSE Head(parts) \o Join(Tail(parts))

\* the length of the first line of a non-empty text, its "\n" included
RECURSIVE LineEnd(_, _)
LineEnd(text, n) ==
    IF n = Len(text) \/ text[n] = "\n" THEN n ELSE LineEnd(text, n + 1)

\* str.splitlines(keepends=True)
RECURSIVE splitlines(_)
splitlines(text) ==
    IF text = <<>> THEN <<>>
    ELSE LET n == LineEnd(text, 1)
         IN  <<SubSeq(text, 1, n)>> \o splitlines(SubSeq(text, n + 1, Len(text)))

\* lines 67-74: the loop over the lines; chunks and current_chunk as the loop
\* leaves them
RECURSIVE PackLines(_, _, _, _)
PackLines(lines, chunks, current_chunk, chunk_size) ==
    IF lines = <<>> THEN [chunks |-> chunks, current_chunk |-> current_chunk]
    ELSE LET line == Head(lines)
             current_len == Len(Join(current_chunk))
         IN  IF current_len + Len(line) <= chunk_size
             THEN PackLines(Tail(lines), chunks, Append(current_chunk, line), chunk_size)
             ELSE PackLines(Tail(lines), Append(chunks, Join(current_chunk)), <<line>>,
                            chunk_size)

\* str.strip() == '' for a chunk of TextWrapper, which is never empty
IsSpace(chunk) == \A n \in DOMAIN chunk : chunk[n] \in Whitespace

\* the length of the first run of whitespace, or of other characters
RECURSIVE RunEnd(_, _)
RunEnd(text, n) ==
    IF n = Len(text) \/ (text[n + 1] \in Whitespace) # (text[1] \in Whitespace) THEN n
    ELSE RunEnd(text, n + 1)

\* TextWrapper._split with wordsep_re: runs of whitespace and words
RECURSIVE split_chunks(_)
split_chunks(text) ==
    IF text = <<>> THEN <<>>
    ELSE LET n == RunEnd(text, 1)
         IN  <<SubSeq(text, 1, n)>> \o split_chunks(SubSeq(text, n + 1, Len(text)))

\* the inner loop of TextWrapper._wrap_chunks: how many of the chunks go on
\* the current line
RECURSIVE Fitting(_, _, _)
Fitting(chunks, cur_len, width) ==
    IF chunks = <<>> \/ cur_len + Len(Head(chunks)) > width THEN 0
    ELSE 1 + Fitting(Tail(chunks), cur_len + Len(Head(chunks)), width)

\* TextWrapper._wrap_chunks with drop_whitespace and without
\* break_long_words: whitespace at the start of a line but the first and at
\* the end of a line is dropped; a word longer than the width gets a line
\* of its own (_handle_long_word)
RECURSIVE wrap_chunks(_, _, _)
wrap_chunks(chunks, lines, width) ==
    IF chunks = <<>> THEN lines
    ELSE LET rest0 == IF IsSpace(Head(chunks)) /\ lines # <<>> THEN Tail(chunks) ELSE chunks
             n == Fitting(rest0, 0, width)
             fit == SubSeq(rest0, 1, n)
             rest1 == SubSeq(rest0, n + 1, Len(rest0))
             long == rest1 # <<>> /\ Len(Head(rest1)) > width /\ fit = <<>>
             cur_line == IF long THEN <<Head(rest1)>> ELSE fit
             rest2 == IF long THEN Tail(rest1) ELSE rest1
             kept == IF cur_line # <<>> /\ IsSpace(cur_line[Len(cur_line)])
                     THEN SubSeq(cur_line, 1, Len(cur_line) - 1)
                     ELSE cur_line
         IN  wrap_chunks(rest2,
                         IF kept # <<>> THEN Append(lines, Join(kept)) ELSE lines,
                         width)

\* textwrap.wrap(text, width=width, break_long_words=False,
\* replace_whitespace=False)
wrap(text, width) == wrap_chunks(split_chunks(text), <<>>, width)

\* lines 80-88: chunks that are still too large go through textwrap
RECURSIVE FinalChunks(_, _)
FinalChunks(chunks, chunk_size) ==
    IF chunks = <<>> THEN <<>>
    ELSE (IF Len(Head(chunks)) > chunk_size
          THEN wrap(Head(chunks), chunk_size)
          ELSE <<Head(chunks)>>) \o FinalChunks(Tail(chunks), chunk_size)

\* LLMClient._chunk_code
chunk_code(code_content, chunk_size) ==
    IF Len(code_content) <= chunk_size THEN <<code_content>>
    ELSE LET packed == PackLines(splitlines(code_content), <<>>, <<>>, chunk_size)
             chunks == IF packed.current_chunk # <<>>
                       THEN Append(packed.chunks, Join(packed.current_chunk))
                       ELSE packed.chunks
         IN  FinalChunks(chunks, chunk_size)

\* a caller is about to chunk a text of its choice with a positive size
InitChunk ==
    /\ input_dir = {}
    /\ content = [f \in Files |-> 40]
    /\ reports = <<>>
    /\ cache_file = [state |-> "absent", doc |-> <<>>]
    /\ hash_memo = [f \in Files |-> NoHash]
    /\ report_format = "json"
    /\ cache = <<>>
    /\ phase = "idle"
    /\ runs = 0
    /\ w = [f \in Files |-> Idle]
    /\ results = <<>>
    /\ proc = Plain
    /\ client = NoClient
    /\ chunker \in {[pc |-> "called", code_content |-> t, chunk_size |-> n, final_chunks |-> <<>>] :
                      t \in Texts, n \in 1..MaxSize}

\* the call returns
ChunkCode ==
    /\ chunker.pc = "called"
    /\ chunker' = [chunker EXCEPT !.pc = "returned",
                                  !.final_chunks = chunk_code(chunker.code_content,
                                                              chunker.chunk_size)]
    /\ UNCHANGED <<input_dir, content, reports, cache_file, hash_memo, report_format, cache, phase,
                   runs, w, results, proc, client>>

NextChunk == ChunkCode

SpecChunk == InitChunk /\ [][NextChunk]_vars

\* ------------------------------------------------------------- the client
\*
\* LLMClient.analyze_code_with_llm (llm_client.py:93-217) and the
\* _call_llm calls it makes (llm_client.py:25-52): one call for every chunk
\* of the text, then one for the synthesis.

MaxAttempts == 3

\* what one generate_content call of _call_llm can do: return a response
\* with parts whose text, stripped as in lines 149 and 205, json.loads
\* accepts ("json") or does not ("not_json", the empty text included), return a response without parts that carries a
\* block reason ("blocked") or none ("no_content"), raise
\* BlockedPromptException ("blocked_exception"), or raise anything else
\* ("error")
ClientOutcomes == {"json", "not_json", "blocked", "no_content", "blocked_exception", "error"}

\* a line of text as long as the chunk size
ClientLine == <<"a", "a", "\n">>

\* texts of no, one, two and three chunks
ClientTexts == {<<>>, ClientLine, ClientLine \o ClientLine,
                ClientLine \o ClientLine \o <<"a">>}

\* _call_llm with a blocked prompt treated as any other failure: a sleep,
\* and the next attempt
call_llm_retries_blocked(c, o) ==
    IF c.max_retries = 0
    THEN [done |-> TRUE, response |-> "None", attempt |-> 0, tried |-> <<>>, slept |-> <<>>]
    ELSE IF o \in {"json", "not_json"}
    THEN [done |-> TRUE, response |-> o, attempt |-> c.attempt,
          tried |-> Append(c.tried, o), slept |-> c.slept]
    ELSE IF o = "no_content"
    THEN [done |-> TRUE, response |-> "None", attempt |-> c.attempt,
          tried |-> Append(c.tried, o), slept |-> c.slept]
    ELSE [done |-> c.attempt + 1 >= c.max_retries, response |-> "None",
          attempt |-> c.attempt + 1,
          tried |-> Append(c.tried, o), slept |-> Append(c.slept, Pow2(c.attempt))]

\* one pass of the loop of _call_llm (llm_client.py:29-50) with the
\* generate_content call doing o, and lines 51-52 after the last pass: the
\* text is returned, or None when the response has no parts or the prompt
\* was blocked; after any other exception the loop sleeps 2 ** attempt and
\* goes round, and None is returned when no pass is left.  done: _call_llm
\* has returned.
call_llm(c, o) ==
    IF c.max_retries = 0
    THEN [done |-> TRUE, response |-> "None", attempt |-> 0, tried |-> <<>>, slept |-> <<>>]
    ELSE IF o \in {"json", "not_json"}
    THEN [done |-> TRUE, response |-> o, attempt |-> c.attempt,
          tried |-> Append(c.tried, o), slept |-> c.slept]
    ELSE IF o \in {"blocked", "no_content", "blocked_exception"}
    THEN [done |-> TRUE, response |-> "None", attempt |-> c.attempt,
          tried |-> Append(c.tried, o), slept |-> c.slept]
    ELSE [done |-> c.attempt + 1 >= c.max_retries, response |-> "None",
          attempt |-> c.attempt + 1,
          tried |-> Append(c.tried, o), slept |-> Append(c.slept, Pow2(c.attempt))]

\* the record of a _call_llm call that has returned
Returned(r) == [tried |-> r.tried, slept |-> r.slept, response |-> r.response]

\* a caller is about to analyse a text of its choice with a client of its
\* choice
InitClient ==
    /\ input_dir = {}
    /\ content = [f \in Files |-> 40]
    /\ reports = <<>>
    /\ cache_file = [state |-> "absent", doc |-> <<>>]
    /\ hash_memo = [f \in Files |-> NoHash]
    /\ report_format = "json"
    /\ cache = <<>>
    /\ phase = "idle"
    /\ runs = 0
    /\ w = [f \in Files |-> Idle]
    /\ results = <<>>
    /\ proc = Plain
    /\ chunker = NoChunker
    /\ client \in {[NoClient EXCEPT !.pc = "called", !.file_content = t,
                                    !.chunk_size = MaxSize, !.max_retries = n] :
                     t \in ClientTexts, n \in 0..MaxAttempts}

\* lines 99-108: nothing to analyse, or the text is chunked
Begin ==
    /\ client.pc = "called"
    /\ client' = IF client.file_content = <<>>
                 THEN [client EXCEPT !.pc = "returned", !.result = "{}"]
                 ELSE [client EXCEPT !.pc = "chunks",
                                     !.chunks = chunk_code(client.file_content,
                                                           client.chunk_size)]
    /\ UNCHANGED <<input_dir, content, reports, cache_file, hash_memo, report_format, cache, phase,
                   runs, w, results, proc, chunker>>

\* the loop over the chunks with `return {}` in the handler of line 154: a
\* chunk whose text is no JSON document ends the analysis of the file
AnalyzeChunkAborts ==
    /\ client.pc = "chunks"
    /\ client.i < Len(client.chunks)
    /\ \E o \in ClientOutcomes :
          LET r == call_llm(client, o)
          IN  client' =
                IF ~r.done
                THEN [client EXCEPT !.attempt = r.attempt, !.tried = r.tried, !.slept = r.slept]
                ELSE IF r.response = "not_json"
                THEN [client EXCEPT !.pc = "returned", !.result = "{}",
                                    !.attempt = 0, !.tried = <<>>, !.slept = <<>>,
                                    !.calls = Append(@, [kind |-> "chunk", chunk |-> client.i + 1,
                                                         over |-> <<>>]),
                                    !.last = Returned(r)]
                ELSE [client EXCEPT !.i = @ + 1,
                                    !.attempt = 0,
                                    !.tried = <<>>,
                                    !.slept = <<>>,
                                    !.individual_analyses =
                                        IF r.response = "json" THEN Append(@, client.i + 1) ELSE @,
                                    !.calls = Append(@, [kind |-> "chunk", chunk |-> client.i + 1,
                                                         over |-> <<>>]),
                                    !.last = Returned(r)]
    /\ UNCHANGED <<input_dir, content, reports, cache_file, hash_memo, report_format, cache, phase,
                   runs, w, results, proc, chunker>>

\* lines 141-157: one pass of _call_llm for the chunk with index i; when
\* the call has returned, a text that json.loads accepts is appended to
\* individual_analyses, and the loop goes to the next chunk
AnalyzeChunkWithLLM ==
    /\ client.pc = "chunks"
    /\ client.i < Len(client.chunks)
    /\ \E o \in ClientOutcomes :
          LET r == call_llm(client, o)
          IN  client' =
                IF ~r.done
                THEN [client EXCEPT !.attempt = r.attempt, !.tried = r.tried, !.slept = r.slept]
                ELSE [client EXCEPT !.i = @ + 1,
                                    !.attempt = 0,
                                    !.tried = <<>>,
                                    !.slept = <<>>,
                                    !.individual_analyses =
                                        IF r.response = "json" THEN Append(@, client.i + 1) ELSE @,
                                    !.calls = Append(@, [kind |-> "chunk", chunk |-> client.i + 1,
                                                         over |-> <<>>]),
                                    !.last = Returned(r)]
    /\ UNCHANGED <<input_dir, content, reports, cache_file, hash_memo, report_format, cache, phase,
                   runs, w, results, proc, chunker>>

\* lines 159-217, after the loop: with no analysis {} is returned; else one
\* pass of the _call_llm of the synthesis over individual_analyses.  When
\* that call has returned None, line 205 calls strip on it, which raises
\* AttributeError; a text that json.loads accepts is returned, and for any
\* other text {} is
Synthesize ==
    /\ client.pc = "chunks"
    /\ client.i = Len(client.chunks)
    /\ IF client.individual_analyses = <<>>
       THEN client' = [client EXCEPT !.pc = "returned", !.result = "{}"]
       ELSE \E o \in ClientOutcomes :
              LET r == call_llm(client, o)
                  c == [client EXCEPT !.attempt = 0,
                                      !.tried = <<>>,
                                      !.slept = <<>>,
                                      !.calls = Append(@, [kind |-> "synthesis", chunk |-> 0,
                                                           over |-> client.individual_analyses]),
                                      !.last = Returned(r)]
              IN  client' =
                    IF ~r.done
                    THEN [client EXCEPT !.attempt = r.attempt, !.tried = r.tried, !.slept = r.slept]
                    ELSE IF r.response = "None"
                    THEN [c EXCEPT !.pc = "raised", !.result = "AttributeError"]
                    ELSE IF r.response = "json"
                    THEN [c EXCEPT !.pc = "returned", !.result = "summary"]
                    ELSE [c EXCEPT !.pc = "returned", !.result = "{}"]
    /\ UNCHANGED <<input_dir, content, reports, cache_file, hash_memo, report_format, cache, phase,
                   runs, w, results, proc, chunker>>

NextClient ==
    \/ Begin
    \/ AnalyzeChunkWithLLM
    \/ Synthesize

SpecClient == InitClient /\ [][NextClient]_vars

\* ----------------------------------------------------------------- claims

\* the entries of a cache that were written in the current run
WrittenThisRun(c) == {f \in DOMAIN c : c[f].timestamp = runs}

\* the worker of f has been through save_report, which returned p
ReportWritten(f, p) ==
    /\ w[f].report_filepath = p
    /\ p # NoPath
    /\ p \in DOMAIN reports
    /\ reports[p] = f

\* C1: while a run is executing, every entry of the in-memory cache and of
\* cache.json that was written in this run belongs to a file whose
\* save_report has already returned the path the entry records
C1_ReportBeforeCache ==
    phase = "running" =>
        /\ \A f \in WrittenThisRun(cache) : ReportWritten(f, cache[f].report_path)
        /\ \A f \in WrittenThisRun(load_cache(cache_file)) :
               ReportWritten(f, load_cache(cache_file)[f].report_path)

C1_Witness ==
    \E f \in Files :
        /\ phase = "running"
        /\ w[f].status = "success"
        /\ f \in WrittenThisRun(cache)
        /\ f \in WrittenThisRun(load_cache(cache_file))

\* the worker of f has just returned "skipped" from the cache check
SkippedUnchanged(f) == w[f].pc = "done" /\ w[f].status = "skipped" /\ w[f].reason = "unchanged"

\* this step is the cache check of f, and the file could be read for hashing
\* (or had been hashed before in this process)
ChecksCache(f) ==
    /\ w[f].pc = "start"
    /\ w'[f].pc # "start"
    /\ ~(hash_memo[f] = NoHash /\ w'[f].file_hash = ERROR_HASH)

\* C2: a cache check that finds the path in the cache with the digest of the
\* file's current bytes, and the report artifact in place, returns "skipped"
\* with no provider call, no report written and the cache as it was
C2_UnchangedIsSkipped ==
    [][\A f \in Files :
         (/\ ChecksCache(f)
          /\ f \in DOMAIN cache
          /\ cache[f].hash = Digest(content[f])
          /\ ExpectedReportPath(f, report_format) \in DOMAIN reports)
         => /\ w'[f].pc = "done"
            /\ w'[f].status = "skipped"
            /\ w'[f].calls = NoCalls
            /\ w'[f].report_filepath = NoPath
            /\ reports' = reports
            /\ cache' = cache
            /\ cache_file' = cache_file]_vars

\* C3: a file is skipped as unchanged only if the artifact its cache entry
\* records as report_path exists
C3_FreshNeedsRecordedReport ==
    \A f \in Files :
        SkippedUnchanged(f) => cache[f].report_path \in DOMAIN reports

\* C4: a file whose fingerprint is the error sentinel is never skipped as
\* unchanged
C4_SentinelNeverSkipped ==
    \A f \in Files :
        w[f].file_hash = ERROR_HASH => ~SkippedUnchanged(f)

\* C5: the fingerprint a run compares with the cache is the digest of the
\* bytes the file holds in that run, so a file is skipped on a digest only
\* when its bytes are those the cache entry was made from
C5_ChangedFileIsNotSkipped ==
    \A f \in Files :
        (SkippedUnchanged(f) /\ w[f].file_hash.kind = "sha256")
        => /\ w[f].file_hash = Digest(content[f])
           /\ cache[f].hash = Digest(content[f])

\* the loop of attempts the worker of f made last
Loop(f) == w[f].last_call

\* C6: an analyze call is attempted at most 3 times, and when the third
\* attempt fails too the loop stops and the file is reported failed
C6_AtMostThreeAttempts ==
    \A f \in Files :
        Loop(f).kind = "analyze" =>
            /\ Len(Loop(f).tried) <= 3
            /\ w[f].calls.analyze <= 3 * (IF w[f].k > 0 THEN w[f].k ELSE 1)
            /\ (Len(Loop(f).tried) = 3 /\ \A j \in 1..3 : Loop(f).tried[j] \in Failures)
                 => /\ Loop(f).state = "raised"
                    /\ w[f].pc = "done"
                    /\ w[f].status = "failed"
                    /\ w[f].reason = "llm_error"

C6_Witness ==
    \E f \in Files :
        /\ Loop(f).kind = "analyze"
        /\ Loop(f).tried = <<"retryable", "retryable", "retryable">>
        /\ w[f].status = "failed"

\* C8: an analyze call that fails twice with a retryable error is attempted
\* a third time after sleeps of 1 and then 2 seconds, and when the third
\* attempt succeeds its result is the result of the call
C8_TwoFailuresThenSuccess ==
    \A f \in Files :
        LET c == Loop(f)
        IN  (c.kind = "analyze" /\ Len(c.tried) >= 2
               /\ c.tried[1] = "retryable" /\ c.tried[2] = "retryable") =>
              /\ c.sleeps = <<1, 2>>
              /\ c.sleeps[1] < c.sleeps[2]
              /\ Len(c.tried) = 2 => c.state = "retrying" /\ w[f].attempt = 2
              /\ (Len(c.tried) = 3 /\ c.tried[3] = "ok") =>
                    /\ c.state = "returned"
                    /\ IF w[f].k = 0
                       THEN /\ w[f].analysis_result.src = "analyze"
                            /\ ~w[f].analysis_result.empty
                            /\ w[f].calls.analyze = 3
                       ELSE /\ Len(w[f].chunk_analyses) = c.chunk
                            /\ w[f].chunk_analyses[c.chunk] = c.chunk

C8_Witness ==
    \E f \in Files :
        /\ Loop(f).kind = "analyze"
        /\ Loop(f).tried = <<"retryable", "retryable", "ok">>
        /\ Loop(f).sleeps = <<1, 2>>
        /\ w[f].pc = "save_report"
        /\ Truthy(w[f].analysis_result)

\* C7: after an attempt that fails with a non-retryable error there is no
\* sleep and no further attempt: the failure is raised at once
C7_BlockedIsNotRetried ==
    \A f \in Files :
        \A j \in 1..Len(Loop(f).tried) :
            Loop(f).tried[j] = "blocked" =>
                /\ Len(Loop(f).tried) = j
                /\ Len(Loop(f).sleeps) = j - 1
                /\ Loop(f).state = "raised"

\* C9: a summarize call that fails with a retryable error is tried again,
\* up to the bound of a chunk call, before the file is failed
C9_SummarizeIsRetried ==
    \A f \in Files :
        (/\ Loop(f).kind = "summarize"
         /\ Loop(f).state = "raised"
         /\ \A j \in 1..Len(Loop(f).tried) : Loop(f).tried[j] = "retryable")
        => Len(Loop(f).tried) = Retries

\* C10: when a chunk's analyze call has failed for good and another chunk
\* has succeeded, the file goes on to synthesis and is not reported failed
C10_PartialFailureTolerated ==
    \A f \in Files :
        (/\ Loop(f).kind = "analyze"
         /\ Loop(f).state = "raised"
         /\ w[f].k > 0
         /\ w[f].chunk_analyses # <<>>)
        => w[f].status # "failed"

\* the chunk loop of f is over and no chunk of its k >= 1 chunks was analysed
AllChunksFailed(f) ==
    /\ w[f].k > 0
    /\ w[f].pc \notin {"chunks", "collected"}
    /\ w[f].chunk_analyses = <<>>

\* C11: in the multi-chunk path, when no chunk's analyze call succeeded, the
\* file is returned 'failed' with a reason, summarize was never called, no
\* report was written, and neither the cache in memory nor cache.json holds
\* an entry written for the file in this run
C11_AllChunksFailed ==
    \A f \in Files :
        AllChunksFailed(f) =>
            /\ w[f].pc = "done"
            /\ w[f].status = "failed"
            /\ w[f].reason # "-"
            /\ w[f].calls.summarize = 0
            /\ w[f].report_filepath = NoPath
            /\ f \notin WrittenThisRun(cache)
            /\ f \notin WrittenThisRun(load_cache(cache_file))

C11_Witness ==
    \E f \in Files :
        /\ AllChunksFailed(f)
        /\ w[f].last_call.kind = "analyze"
        /\ w[f].last_call.state = "raised"
        /\ Len(w[f].last_call.tried) = Retries
        /\ w[f].status = "failed"
        /\ f \in DOMAIN cache
        /\ cache[f].hash # w[f].file_hash

\* the estimate of line 78 was made for f and the branch of line 79 taken
Decided(f) == w[f].pc \in {"chunks", "single", "save_report", "record", "save_cache", "dump"}
              \/ (w[f].pc = "done" /\ w[f].calls.analyze > 0)

\* the analyze calls for f that returned (a summarize call that raised is
\* among calls.failed and ends the file)
AnalyzeReturned(f) ==
    w[f].calls.analyze - (w[f].calls.failed - (IF w[f].calls.summarize = 1
                                                  /\ w[f].last_call.kind = "summarize"
                                                  /\ w[f].last_call.state = "raised"
                                               THEN 1 ELSE 0))

\* C16: a file whose estimated token count is at most the context window is
\* never split: no summarize call is made for it, and once an analyze call
\* has returned, exactly one has, on the whole content, and its result is
\* flagged as not synthesized; the chunk loop is entered, and a result is
\* flagged as synthesized, only if the estimate exceeds the context window
C16_ChunkingDecision ==
    \A f \in Files :
        /\ (Decided(f) /\ get_token_count(content[f]) <= ContextWindow) =>
               /\ w[f].pc # "chunks"
               /\ w[f].k = 0
               /\ w[f].chunk_analyses = <<>>
               /\ w[f].calls.summarize = 0
               /\ AnalyzeReturned(f) <= 1
               /\ w[f].analysis_result.kind = "dict" =>
                      /\ AnalyzeReturned(f) = 1
                      /\ w[f].analysis_result.src = "analyze"
                      /\ ~w[f].analysis_result.chunked
        /\ (w[f].pc = "chunks" \/ w[f].k > 0 \/ w[f].analysis_result.chunked) =>
               get_token_count(content[f]) > ContextWindow

C16_Witness ==
    \E f \in Files :
        /\ get_token_count(content[f]) = ContextWindow
        /\ w[f].status = "success"
        /\ w[f].calls.analyze = 2
        /\ w[f].calls.failed = 1
        /\ ~w[f].analysis_result.chunked

\* f went into the multi-chunk path and no provider call for it has raised
ChunkedNoFailure(f) ==
    /\ Decided(f)
    /\ get_token_count(content[f]) > ContextWindow
    /\ w[f].calls.failed = 0

\* the result of f has been handed to save_report
PastAnalysis(f) == w[f].pc \in {"save_report", "record", "save_cache", "dump"}
                   \/ (w[f].pc = "done" /\ w[f].status = "success")

\* C17: in the multi-chunk path with k chunks and no provider failure, the
\* analyze calls made so far are one per chunk in chunk order, summarize is
\* called at most once and only after all k chunks, and the result handed
\* to save_report comes from exactly one summarize call over the k chunk
\* results and is marked as synthesized
C17_ChunksThenSummarize ==
    \A f \in Files :
        ChunkedNoFailure(f) =>
            /\ w[f].calls.analyze = w[f].i
            /\ w[f].chunk_analyses = [j \in 1..w[f].i |-> j]
            /\ w[f].calls.summarize <= 1
            /\ w[f].calls.summarize = 1 => w[f].i = w[f].k
            /\ PastAnalysis(f) =>
                   /\ w[f].i = w[f].k
                   /\ w[f].calls.summarize = 1
                   /\ w[f].analysis_result.src = "summarize"
                   /\ w[f].analysis_result.chunked

\* _process_file(f) has returned because f could not be opened: by open in
\* is_text_file (the files of the model are text under a known extension,
\* so is_text_file is False only then) or by open in read_file_content
CouldNotRead(f) ==
    /\ w[f].pc = "done"
    /\ w[f].reason \in {"not_text_file", "file_read_error"}

\* C19: a file that cannot be read is returned 'failed' with a reason, and
\* no provider call is made for it
C19_UnreadableIsFailed ==
    \A f \in Files :
        CouldNotRead(f) =>
            /\ w[f].status = "failed"
            /\ w[f].calls.analyze = 0
            /\ w[f].calls.summarize = 0

\* C12: the results run_analysis has collected are one per file, for
\* discovered files only, each with a status among success, failed and
\* skipped and every failed one with a reason; a file's future is consumed
\* exactly when its result is in the list; and once every future is
\* consumed there is a result for every discovered file, so that the three
\* counts of the summary add up to the number of discovered files
C12_OneResultPerFile ==
    phase = "running" =>
        /\ \A j \in DOMAIN results :
               /\ results[j].filepath \in input_dir
               /\ results[j].status \in {"success", "failed", "skipped"}
               /\ results[j].status = "failed" => results[j].reason # "-"
               /\ \A j2 \in DOMAIN results : results[j2].filepath = results[j].filepath => j2 = j
        /\ \A f \in input_dir :
               w[f].pc = "collected" <=> \E j \in DOMAIN results : results[j].filepath = f
        /\ (\A f \in input_dir : w[f].pc = "collected") =>
               Cardinality(successful_reports) + Cardinality(failed_reports)
                 + Cardinality(skipped_reports) = Cardinality(input_dir)

C12_Witness ==
    /\ phase = "running"
    /\ Len(results) = Cardinality(input_dir)
    /\ results[1].status = "failed"
    /\ results[1].reason = "executor_critical_error"
    /\ results[2].status = "success"

\* the worker of f is past the assignment of line 128
Recorded(f) ==
    /\ w[f].report_filepath # NoPath
    /\ w[f].pc \in {"save_cache", "dump", "done", "collected"}

\* the entry line 128 assigns for f in this run
OwnEntry(f) == [hash |-> w[f].file_hash, timestamp |-> runs,
                report_path |-> w[f].report_filepath]

\* C13: once every worker of the run has finished, the cache in memory
\* holds, for every file whose worker reached the assignment of line 128,
\* an entry with that file's fingerprint and report path, whatever the
\* interleaving of the workers was
C13_NoLostCacheUpdate ==
    (phase = "running" /\ \A f \in input_dir : w[f].pc \in {"done", "raised", "collected"}) =>
        \A f \in input_dir :
            Recorded(f) => (f \in DOMAIN cache /\ cache[f] = OwnEntry(f))

C13_Witness ==
    /\ phase = "running"
    /\ \A f \in input_dir : w[f].pc = "done" /\ Recorded(f) /\ cache[f] = OwnEntry(f)
    /\ \E f \in input_dir : w[f].reason = "unexpected_error: json.dump"

\* C14: no save_cache call of a worker raises, and cache.json is never left
\* as a document written over the tail of another
C14_SaveCacheIsSafe ==
    /\ \A f \in Files : w[f].reason # "unexpected_error: json.dump"
    /\ cache_file.state # "torn"

\* C15: a file returned 'success' has, under its path, the entry made of the
\* fingerprint computed for it in this run and of the path save_report
\* returned, whatever entry the path had before; and the step that records
\* it adds that path to the keys of the cache, if new, and leaves the entry
\* of every other path as it was
C15_SuccessRecordsOwnEntry ==
    /\ [](\A f \in Files :
            (w[f].pc = "done" /\ w[f].status = "success") =>
                /\ f \in DOMAIN cache
                /\ cache[f] = OwnEntry(f)
                /\ w[f].file_hash = hash_memo[f]
                /\ cache[f].report_path = SaveReportPath(f, report_format))
    /\ [][\A f \in Files :
            (w[f].pc = "record" /\ w'[f].pc # "record") =>
                /\ DOMAIN cache' = DOMAIN cache \cup {f}
                /\ \A g \in DOMAIN cache \ {f} : cache'[g] = cache[g]]_vars

C15_Witness ==
    /\ w[FileB].pc = "done"
    /\ w[FileB].status = "success"
    /\ cache[FileB] = OwnEntry(FileB)
    /\ FileB \in DOMAIN load_cache(cache_file)
    /\ load_cache(cache_file)[FileB].timestamp < runs
    /\ load_cache(cache_file)[FileB].hash # cache[FileB].hash
    /\ FileA \in DOMAIN cache

\* C18: no two different source files of a run are written to the same
\* report path, and the artifact at the path save_report returned for a
\* file is that file's report
C18_OneReportPerFile ==
    phase = "running" =>
        \A f \in input_dir :
            w[f].report_filepath # NoPath =>
                /\ \A g \in input_dir \ {f} : w[g].report_filepath # w[f].report_filepath
                /\ reports[w[f].report_filepath] = f

\* save_report raised for f
ReportNotSaved(f) ==
    /\ w[f].pc = "done"
    /\ w[f].reason = "unexpected_error: save_report"

\* C20: a file whose report could not be written is returned 'failed' with
\* a reason, neither the cache in memory nor cache.json holds an entry
\* written for it in this run, and every other discovered file has been
\* submitted to a worker all the same
C20_ReportWriteFailure ==
    \A f \in Files :
        ReportNotSaved(f) =>
            /\ w[f].status = "failed"
            /\ w[f].report_filepath = NoPath
            /\ f \notin WrittenThisRun(cache)
            /\ f \notin WrittenThisRun(load_cache(cache_file))
            /\ \A g \in input_dir : w[g].pc # "idle"

C20_Witness ==
    /\ ReportNotSaved(FileB)
    /\ FileB \in DOMAIN cache
    /\ cache[FileB].hash # w[FileB].file_hash
    /\ FileB \in DOMAIN load_cache(cache_file)
    /\ load_cache(cache_file)[FileB] = cache[FileB]
    /\ w[FileA].pc = "done"
    /\ w[FileA].status = "success"
    /\ FileA \in WrittenThisRun(load_cache(cache_file))

\* C21: load_cache never raises, so that no process ends in the
\* construction of the processor because of cache.json
C21_LoadCacheNeverRaises == phase # "exited: load_cache"

\* C23: a process whose backend type is not supported or whose credential
\* is absent ends in the construction of the processor: no file is
\* submitted, no result collected and nothing loaded into the cache; and
\* from its start until the next process starts no report is written and
\* cache.json is not written (--no-cache may have removed it)
C23_ConfigErrorAbortsBeforeAnyFile ==
    /\ [](proc.llm # "ok" =>
            /\ phase = "exited: config"
            /\ \A f \in Files : w[f] = Idle
            /\ results = <<>>
            /\ cache = <<>>)
    /\ [][(proc.llm # "ok" \/ proc'.llm # "ok") =>
            /\ reports' = reports
            /\ cache_file' \in {cache_file, [state |-> "absent", doc |-> <<>>]}
            /\ runs' = runs]_vars

C23_Witness ==
    /\ phase = "exited: config"
    /\ proc.llm = "no_api_key"
    /\ ~proc.no_cache
    /\ cache_file.state = "ok"
    /\ FileA \in DOMAIN cache_file.doc
    /\ reports # <<>>

\* _process_file(f) has ended, with a result or with an exception that
\* run_analysis turns into a 'failed' result
Terminal(f) ==
    \/ w[f].pc = "done" /\ w[f].status \in {"success", "failed", "skipped"}
    \/ w[f].pc = "raised"
    \/ w[f].pc = "collected"

\* C22: when every call returns, no worker that has a step left is ever
\* unable to take it (none waits on another), run_analysis returns only
\* with one result of a terminal status for every submitted file, and
\* every run_analysis that has started does return
C22_RunTerminates ==
    /\ [](\A f \in Files :
            w[f].pc \notin {"idle", "done", "raised", "collected"} => ENABLED Worker(f))
    /\ [][phase = "running" /\ phase' = "idle" =>
            \A f \in input_dir :
                /\ Terminal(f)
                /\ \E j \in DOMAIN results :
                      /\ results[j].filepath = f
                      /\ results[j].status \in {"success", "failed", "skipped"}]_vars
    /\ (phase = "running") ~> (phase = "idle")

\* both files have been collected, one analysed and one failed
C22_Witness ==
    /\ phase = "running"
    /\ Len(results) = 2
    /\ {results[j].status : j \in DOMAIN results} = {"success", "failed"}
    /\ \A f \in Files : Terminal(f)

\* C24: in a process started with --no-cache, from whatever directory, no
\* file is skipped as unchanged
C24_NoCacheSkipsNothing ==
    proc.no_cache => \A f \in Files : ~SkippedUnchanged(f)

\* C25: in the chunk loop the findings of the static analysis go with every
\* attempt at the first chunk, every attempt at a later chunk is made with
\* an empty findings text, and summarize is called without them
C25_FindingsOnlyWithFirstChunk ==
    \A f \in Files :
        LET call == w[f].last_call
        IN  /\ call.kind = "analyze" /\ call.chunk = 1 =>
                  call.findings = static_analysis_findings_str(f)
            /\ call.kind = "analyze" /\ call.chunk > 1 => call.findings = ""
            /\ call.kind = "summarize" => call.findings = ""

\* the second attempt at the second chunk of a file that has findings
C25_Witness ==
    /\ static_analysis_findings_str(FileA) # ""
    /\ w[FileA].pc = "chunks"
    /\ w[FileA].last_call.kind = "analyze"
    /\ w[FileA].last_call.chunk = 2
    /\ Len(w[FileA].last_call.tried) = 2
    /\ w[FileA].last_call.findings = ""

\* this step belongs to a process that has been constructed: the start of
\* run_analysis, a step of a worker or of the collecting loop, the end of
\* run_analysis, or a step of the environment after it
InProcess == phase' \in {"running", "idle"}

\* C26: while a process lives every cached path stays cached, and an entry
\* changes only when the worker of its own file records a success; a
\* completed rewrite of cache.json drops no path; a process that starts
\* loads what cache.json holds, and removes the file only under --no-cache
C26_EntriesAreRetained ==
    [][/\ InProcess =>
            /\ \A f \in DOMAIN cache :
                  /\ f \in DOMAIN cache'
                  /\ cache'[f] # cache[f] => w[f].pc = "record" /\ w'[f].pc = "save_cache"
            /\ cache_file.state = "ok" /\ cache_file'.state = "ok" =>
                  DOMAIN cache_file.doc \subseteq DOMAIN cache_file'.doc
       /\ ~InProcess =>
            /\ cache_file' # cache_file => proc'.no_cache /\ cache_file'.state = "absent"
            /\ phase' = "constructed" => cache' = load_cache(cache_file')]_vars

\* the file was analysed by an earlier process; in this one its analysis
\* has failed, and its entry is in the cache as it was loaded
C26_Witness ==
    /\ phase = "running"
    /\ ~proc.no_cache
    /\ w[FileA].pc = "done"
    /\ w[FileA].status = "failed"
    /\ FileA \in DOMAIN cache
    /\ cache_file.state = "ok"
    /\ FileA \in DOMAIN cache_file.doc
    /\ cache[FileA] = cache_file.doc[FileA]

\* C27: the chunks returned for a text and a positive size, concatenated,
\* are the text
C27_ChunksConcatenateToText ==
    chunker.pc = "returned" => Join(chunker.final_chunks) = chunker.code_content

\* the chunk is a whole number of consecutive lines of the text
WholeLines(chunk, text) ==
    LET lines == splitlines(text)
    IN  \E i \in DOMAIN lines : \E j \in i..Len(lines) : chunk = Join(SubSeq(lines, i, j))

\* the chunk is a piece of a line longer than the size, cut at a multiple of
\* the size
WrappedPiece(chunk, text, chunk_size) ==
    LET lines == splitlines(text)
    IN  \E i \in DOMAIN lines :
            /\ Len(lines[i]) > chunk_size
            /\ \E k \in 0..(Len(lines[i]) \div chunk_size) :
                  /\ k * chunk_size < Len(lines[i])
                  /\ chunk = SubSeq(lines[i], k * chunk_size + 1,
                                    IF (k + 1) * chunk_size < Len(lines[i])
                                    THEN (k + 1) * chunk_size ELSE Len(lines[i]))

\* C28: every chunk returned for a text and a positive size is at most the
\* size long, and is a whole number of lines of the text or a piece of a
\* longer line cut at the size
C28_ChunksWithinSize ==
    chunker.pc = "returned" /\ chunker.code_content # <<>> =>
        \A n \in DOMAIN chunker.final_chunks :
            LET chunk == chunker.final_chunks[n]
            IN  /\ Len(chunk) <= chunker.chunk_size
                /\ \/ WholeLines(chunk, chunker.code_content)
                   \/ WrappedPiece(chunk, chunker.code_content, chunker.chunk_size)

\* C29: no chunk returned for a non-empty text is empty, and a text no
\* longer than the size comes back as the one chunk
C29_NoEmptyChunk ==
    chunker.pc = "returned" =>
        /\ chunker.code_content # <<>> =>
              \A n \in DOMAIN chunker.final_chunks : chunker.final_chunks[n] # <<>>
        /\ Len(chunker.code_content) <= chunker.chunk_size =>
              chunker.final_chunks = <<chunker.code_content>>

\* the worker of f is in _process_file
InFlight(f) == w[f].pc \notin {"idle", "start", "done", "raised", "collected"}

\* C30: once the running analysis has been asked to stop, no submitted file
\* whose _process_file has not begun begins, and a file in flight goes on
\* to its end
C30_StopSignal ==
    /\ [][proc.interrupted => \A f \in Files : w[f].pc = "start" => w'[f].pc = "start"]_vars
    /\ [](proc.interrupted => \A f \in Files : InFlight(f) => ENABLED Worker(f))

\* C31: a file reported 'failed' has no cache entry written in this run,
\* and a reported file with an entry written in this run is reported
\* 'success', whatever the interleaving of the workers
C31_FailedHasNoEntry ==
    phase = "running" =>
        \A j \in DOMAIN results :
            /\ results[j].status = "failed" => results[j].filepath \notin WrittenThisRun(cache)
            /\ results[j].filepath \in WrittenThisRun(cache) => results[j].status = "success"

\* C32: a worker that returns 'success' has made an analyze call that
\* succeeded in this run, and the record it handed to save_report came from
\* the provider, was not empty, and was not made from an empty chunk list
C32_SuccessNeedsAnalysis ==
    \A f \in Files :
        w[f].pc = "done" /\ w[f].status = "success" =>
            /\ w[f].calls.analyze - w[f].calls.failed >= 1
            /\ w[f].analysis_result.src \in {"analyze", "summarize"}
            /\ ~w[f].analysis_result.empty
            /\ w[f].analysis_result.chunked => w[f].k > 0 /\ w[f].chunk_analyses # <<>>

\* the _call_llm call that returned last was the call of the synthesis
SynthesisReturned ==
    /\ client.calls # <<>>
    /\ client.calls[Len(client.calls)].kind = "synthesis"

\* C33: when the _call_llm of the synthesis has returned no response,
\* analyze_code_with_llm returns the empty result and raises nothing
C33_NoSynthesisResponseIsEmpty ==
    SynthesisReturned /\ client.last.response = "None" =>
        client.pc = "returned" /\ client.result = "{}"

\* analyze_code_with_llm has ended for a text that is not empty
ClientDone == client.pc \in {"returned", "raised"} /\ client.file_content # <<>>

\* C34: every chunk gets its call, in order, whatever the calls before it
\* returned; a chunk's analysis is kept exactly when its call returned a
\* text that parses; with no analysis kept the result is empty and no
\* synthesis call is made; otherwise one synthesis call is made, after the
\* calls of all chunks, over the kept analyses in the order of their chunks
C34_ChunksThenOneSynthesis ==
    /\ [](LET n == Len(client.chunks)
              kept == client.individual_analyses
          IN  /\ \A j \in DOMAIN client.calls :
                    IF j <= n
                    THEN client.calls[j] = [kind |-> "chunk", chunk |-> j, over |-> <<>>]
                    ELSE /\ j = n + 1
                         /\ client.calls[j] = [kind |-> "synthesis", chunk |-> 0, over |-> kept]
              /\ \A j \in DOMAIN kept : \A k \in DOMAIN kept : j < k => kept[j] < kept[k]
              /\ \A j \in DOMAIN kept : kept[j] \in 1..client.i
              /\ ClientDone =>
                    /\ client.i = n
                    /\ IF kept = <<>>
                       THEN Len(client.calls) = n /\ client.pc = "returned" /\ client.result = "{}"
                       ELSE Len(client.calls) = n + 1)
    /\ [][client'.i = client.i + 1 =>
            /\ client'.pc = "chunks"
            /\ client'.individual_analyses =
                  IF client'.last.response = "json"
                  THEN Append(client.individual_analyses, client.i + 1)
                  ELSE client.individual_analyses]_vars

\* of three chunks the second was dropped, and the synthesis was made over
\* the first and the third
C34_Witness ==
    /\ client.pc = "returned"
    /\ client.result = "summary"
    /\ Len(client.chunks) = 3
    /\ client.individual_analyses = <<1, 3>>
    /\ Len(client.calls) = 4
    /\ client.calls[4].over = <<1, 3>>

Blocked == {"blocked", "blocked_exception"}

\* C35: a _call_llm call makes at most max_retries attempts; an attempt
\* whose prompt is blocked is the last of its call, which returns no
\* result, and no sleep follows it
C35_BlockedEndsTheCall ==
    /\ Len(client.tried) <= client.max_retries
    /\ Len(client.last.tried) <= client.max_retries
    /\ \A n \in DOMAIN client.tried : client.tried[n] \notin Blocked
    /\ \A n \in DOMAIN client.last.tried :
          client.last.tried[n] \in Blocked =>
              /\ n = Len(client.last.tried)
              /\ client.last.response = "None"
              /\ Len(client.last.slept) = n - 1

\* a call that failed once and was then blocked: one sleep, two attempts of
\* the three it could make
C35_Witness ==
    /\ client.max_retries = 3
    /\ client.last.tried = <<"error", "blocked">>
    /\ client.last.slept = <<1>>
    /\ client.last.response = "None"

\* C36: a retry loop that has failed all its attempts has slept once less
\* than it has attempted: the loops of _process_file, and _call_llm
C36_NoSleepAfterLastAttempt ==
    /\ \A f \in Files :
          (Loop(f).state = "raised" /\ Len(Loop(f).tried) = Retries) =>
              Len(Loop(f).sleeps) = Retries - 1
    /\ (/\ client.max_retries >= 1
        /\ Len(client.last.tried) = client.max_retries
        /\ \A n \in DOMAIN client.last.tried : client.last.tried[n] = "error") =>
              Len(client.last.slept) = client.max_retries - 1

\* C37: when run_analysis returns from a run that had files, with a
\* cache.json that can be written, cache.json holds the cache as it is in
\* memory, with the entry this run recorded for every file it reported
\* 'success', however the saves of the workers interleaved
C37_PersistedEqualsMemory ==
    [][phase = "running" /\ phase' = "idle" =>
          /\ cache_file' = [state |-> "ok", doc |-> cache']
          /\ \A j \in DOMAIN results :
                results[j].status = "success" =>
                    /\ results[j].filepath \in DOMAIN cache_file'.doc
                    /\ cache_file'.doc[results[j].filepath].timestamp = runs]_vars

\* the run has returned with both files analysed, and cache.json holds
\* both entries
C37_Witness ==
    /\ phase = "idle"
    /\ runs = 1
    /\ cache_file = [state |-> "ok", doc |-> cache]
    /\ \A f \in Files : f \in DOMAIN cache /\ cache[f].timestamp = runs
====
